---- MODULE Spec2Model ----
(***************************************************************************)
(* Model of the speech translator's session core: the LiveService          *)
(* controller (src/services/liveService.ts) driven by the application      *)
(* component (src/App.tsx), together with the platform objects the         *)
(* controller owns: audio contexts, the microphone stream, the capture     *)
(* processor, buffer sources and the network session.                      *)
(*                                                                         *)
(* Every action is one task of the browser's event loop: a click handler,  *)
(* the continuation of an await, or one session callback, run to its end.  *)
(***************************************************************************)
EXTENDS Integers, Sequences, FiniteSets, TLC

\* ---------------------------------------------------------------- bounds
MaxAttempts == 2      \* connect() calls in one run
MaxLen      == 2      \* characters held by one transcript buffer
MaxFrags    == 2      \* fragments of one direction between two turn-completes
MaxChunks   == 1      \* audio chunks received in one run of the whole program
MaxTime     == 1      \* ticks of an output context's clock in such a run
MaxDur      == 1      \* duration of a decoded chunk, in ticks
PlayChunks  == 2      \* audio chunks received in one run of the playback scheduler
PlayTime    == 2      \* ticks of the output context's clock in such a run
MaxBlocks   == 2      \* blocks captured from the microphone in one run
MaxSamples  == 2      \* samples in one captured block
MaxAmp      == 4      \* largest sample magnitude, in units of 1 / SampleDen
SampleDen   == 2      \* a sample n stands for the number n / SampleDen

Attempts  == 1..MaxAttempts
Chunks    == 1..PlayChunks
Durations == 1..MaxDur

Null == 0             \* a null reference; objects are named by the attempt that made them

\* Text is a sequence of characters; a fragment is a short text.
Fragments == {<< >>, <<"a">>, <<"b">>}
Absent    == <<"#">>  \* the message carries no transcription of that direction

VARIABLES
  status,       \* App: useState<AppStatus>
  prevStatus,   \* the status replaced by the latest setStatus call (history)
  apiKey,       \* process.env.API_KEY is set
  svc,          \* the fields of the LiveService instance
  dev,          \* the audio objects of the platform, by the attempt that created them
  net,          \* the network sessions, by the attempt that opened them
  pc,           \* where each connect() call is suspended
  calls,        \* callbacks invoked, by the attempt whose callbacks they are (history)
  cancelledAt,  \* where an attempt was when disconnect() ran during it (history)
  recv,         \* fragments received per direction since the last turn-complete (history)
  lastOp,       \* the task that ran last (history)
  lastEvents,   \* the onTranscription calls made by the task that ran last (history)
  rejected,     \* promises rejected and left unhandled by the task that ran last (history)
  lastBlob,     \* the blob encoded by the task that ran last (history)
  sched         \* the enqueue of each chunk being decoded, and the stops since (history)

vars == <<status, prevStatus, apiKey, svc, dev, net, pc, calls, cancelledAt, recv,
          lastOp, lastEvents, rejected, lastBlob, sched>>

\* ------------------------------------------------------------- helpers
Max(a, b) == IF a >= b THEN a ELSE b

RECURSIVE Flatten(_)
Flatten(ss) == IF ss = << >> THEN << >> ELSE Head(ss) \o Flatten(Tail(ss))

\* no blob: the task encoded nothing
NoBlob == [data |-> << >>, mimeType |-> ""]

\* The values a task works on: the controller and the platform it touches,
\* the application status, and what the task has reported so far.
World == [svc |-> svc, dev |-> dev, net |-> net, status |-> status,
          prev |-> prevStatus, calls |-> calls, events |-> << >>, rejected |-> 0,
          blob |-> NoBlob, sched |-> sched]

\* App.tsx: setStatus(s)
setStatus(w, s) == [w EXCEPT !.prev = w.status, !.status = s]

\* App.tsx: the onError callback given to connect()
onErrorCb(w, k) ==
  LET w1 == [w EXCEPT !.calls.onError[k] = @ + 1]
  IN  setStatus(w1, "ERROR")

\* App.tsx: the onStatusChange callback given to connect()
onStatusChangeCb(w, k, s) ==
  LET w1 == IF s = "LISTENING" THEN [w EXCEPT !.calls.listening[k] = TRUE] ELSE w
  IN  setStatus(w1, s)

\* App.tsx: handleTranscription, seen as the call it receives
onTranscriptionCb(w, text, type, isFinal) ==
  [w EXCEPT !.events = Append(@, [text |-> text, type |-> type, isFinal |-> isFinal])]

\* --------------------------------------------------- playback scheduler
\* AudioBufferSourceNode.stop(): a source that is playing or scheduled is cut;
\* stop() on a source that already ended changes nothing.
stopSource(d, c) ==
  IF d.src[c] = "started" THEN [d EXCEPT !.src[c] = "stopped"] ELSE d

RECURSIVE stopSources(_, _)
stopSources(d, S) ==
  IF S = {} THEN d
  ELSE LET c == CHOOSE x \in S : TRUE IN stopSources(stopSource(d, c), S \ {c})

\* stopAllAudio() that stops the first pending source only
stopAllAudioFirstOnly(w) ==
  LET S == IF w.svc.sources = {} THEN {}
           ELSE {CHOOSE c \in w.svc.sources : \A x \in w.svc.sources : c <= x}
  IN  [w EXCEPT !.dev = stopSources(w.dev, S),
                !.svc.sources = {},
                !.svc.nextStartTime = 0,
                !.sched.cut = [c \in Chunks |-> @[c] \/ w.dev.src[c] # "none"],
                !.sched.afterStop = TRUE]

\* History: every chunk enqueued so far has now seen a stopAllAudio(), and the
\* next chunk will be the first one enqueued after it.
stopAllAudio(w) ==
  [w EXCEPT !.dev = stopSources(w.dev, w.svc.sources),
            !.svc.sources = {},
            !.svc.nextStartTime = 0,
            !.sched.cut = [c \in Chunks |-> @[c] \/ w.dev.src[c] # "none"],
            !.sched.afterStop = TRUE]

\* ------------------------------------------------------------ disconnect
\* AudioContext.close(): closes an open context; on a context that is already
\* closed the returned promise is rejected (InvalidStateError), and the caller
\* attaches no handler to it.
closeIn(w, c) ==
  IF c = Null THEN w
  ELSE IF w.dev.inCtx[c] = "closed" THEN [w EXCEPT !.rejected = @ + 1]
  ELSE [w EXCEPT !.dev.inCtx[c] = "closed"]

closeOut(w, c) ==
  IF c = Null THEN w
  ELSE IF w.dev.outCtx[c] = "closed" THEN [w EXCEPT !.rejected = @ + 1]
  ELSE [w EXCEPT !.dev.outCtx[c] = "closed"]

\* this.sessionPromise?.then(s => s.close()): the promise is fulfilled once the
\* session is open, so the close is requested now if it is open and as soon as
\* it opens otherwise; the promise of a session that failed before opening is
\* never fulfilled, and then() on a rejected promise gives a promise that
\* rejects with no handler.
closeSession(w, s) ==
  IF s = Null THEN w
  ELSE IF w.net.state[s] = "connecting" THEN [w EXCEPT !.net.closePending[s] = TRUE]
  ELSE IF w.net.opened[s] THEN [w EXCEPT !.net.closeReq[s] = TRUE]
  ELSE IF w.net.state[s] = "rejected" THEN [w EXCEPT !.rejected = @ + 1]
  ELSE w

stopTracks(w, m) ==
  IF m = Null THEN w
  ELSE [w EXCEPT !.dev.stream[m] = "stopped"]

detachProcessor(w, p) ==
  IF p = Null THEN w
  ELSE [w EXCEPT !.dev.proc[p] = "disconnected"]

disconnect(w) ==
  LET w1 == stopAllAudio(w)
      w2 == stopTracks(w1, w1.svc.mediaStream)
      w3 == detachProcessor(w2, w2.svc.scriptProcessor)
      w4 == closeSession(w3, w3.svc.sessionPromise)
      w5 == closeIn(w4, w4.svc.inputAudioContext)
      w6 == closeOut(w5, w5.svc.outputAudioContext)
  IN  [w6 EXCEPT !.svc.sessionPromise = Null]

\* ------------------------------------------------------------- streaming
\* startStreaming(): wires a new capture processor, named by the session whose
\* open event runs it, to whatever context and stream the fields hold now.
startStreaming(w, k) ==
  IF w.svc.inputAudioContext = Null \/ w.svc.mediaStream = Null
       \/ w.svc.sessionPromise = Null
  THEN w
  ELSE [w EXCEPT !.dev.proc[k] = "connected",
                 !.dev.procCtx[k] = w.svc.inputAudioContext,
                 !.dev.procStream[k] = w.svc.mediaStream,
                 !.svc.scriptProcessor = k]

\* ----------------------------------------------------------- PCM encoder
\* A sample is a number n / SampleDen, or not a number.
NaN     == MaxAmp + 1
Samples == (-MaxAmp..MaxAmp) \cup {NaN}
Blocks  == UNION {[1..n -> Samples] : n \in 0..MaxSamples}

\* the integer part of a / b
TruncDiv(a, b) == IF a >= 0 THEN a \div b ELSE -((-a) \div b)

\* storing a number in an Int16Array: the integer part, modulo 2^16, as a
\* signed value
toInt16(x) ==
  LET m == x % 65536
  IN  IF m >= 32768 THEN m - 65536 ELSE m

\* int16[i] = data[i] * 32767; not-a-number is stored as 0
scale(s) == IF s = NaN THEN 0 ELSE toInt16(TruncDiv(s * 32767, SampleDen))

\* the two bytes of one element, high byte first
bytesOfHighFirst(v) ==
  LET u == v % 65536
  IN  <<u \div 256, u % 256>>

\* the two bytes of one Int16Array element in the buffer, low byte first
bytesOf(v) ==
  LET u == v % 65536
  IN  <<u % 256, u \div 256>>

\* new Uint8Array(int16.buffer)
pcmBytes(data) == Flatten([i \in 1..Len(data) |-> bytesOf(scale(data[i]))])

\* encode(): the bytes as base64 digits 0..63, three bytes to four digits, the
\* last group padded
Pad == 64

RECURSIVE encode(_)
encode(b) ==
  IF b = << >> THEN << >>
  ELSE LET n  == Len(b)
           b2 == IF n >= 2 THEN b[2] ELSE 0
           b3 == IF n >= 3 THEN b[3] ELSE 0
           v  == b[1] * 65536 + b2 * 256 + b3
       IN  << v \div 262144,
              (v \div 4096) % 64,
              IF n >= 2 THEN (v \div 64) % 64 ELSE Pad,
              IF n >= 3 THEN v % 64 ELSE Pad >>
           \o encode(IF n > 3 THEN SubSeq(b, 4, n) ELSE << >>)

\* decode(): the bytes a base64 text stands for
RECURSIVE decode(_)
decode(t) ==
  IF Len(t) < 4 THEN << >>
  ELSE LET c3 == IF t[3] = Pad THEN 0 ELSE t[3]
           c4 == IF t[4] = Pad THEN 0 ELSE t[4]
           v  == t[1] * 262144 + t[2] * 4096 + c3 * 64 + c4
           n  == IF t[3] = Pad THEN 1 ELSE IF t[4] = Pad THEN 2 ELSE 3
       IN  SubSeq(<<v \div 65536, (v \div 256) % 256, v % 256>>, 1, n)
           \o decode(SubSeq(t, 5, Len(t)))

createPcmBlob(data) ==
  [data |-> encode(pcmBytes(data)), mimeType |-> "audio/pcm;rate=16000"]

\* onaudioprocess with a send that goes in front of the sends already waiting
onaudioprocessInFront(w, data, ok) ==
  LET b  == w.dev.blocks + 1
      s  == w.svc.sessionPromise
      w1 == [w EXCEPT !.dev.blocks = b, !.blob = createPcmBlob(data)]
  IN  IF s = Null THEN w1
      ELSE IF w1.net.opened[s]
      THEN LET w2 == [w1 EXCEPT !.net.sent[s] = Append(@, b)]
           IN  IF ok THEN w2 ELSE [w2 EXCEPT !.rejected = @ + 1]
      ELSE IF w1.net.state[s] = "connecting"
      THEN [w1 EXCEPT !.net.waiting[s] = <<b>> \o @]
      ELSE IF w1.net.state[s] = "rejected"
      THEN [w1 EXCEPT !.rejected = @ + 1]
      ELSE w1

\* onaudioprocess: the block is encoded and its send is attached to the session
\* promise the field holds now. On a fulfilled promise the send runs before the
\* next task, and `ok` tells whether sendRealtimeInput returns or throws; on a
\* pending promise it waits, behind the sends attached before it.
onaudioprocess(w, data, ok) ==
  LET b  == w.dev.blocks + 1
      s  == w.svc.sessionPromise
      w1 == [w EXCEPT !.dev.blocks = b, !.blob = createPcmBlob(data)]
  IN  IF s = Null THEN w1
      ELSE IF w1.net.opened[s]
      THEN LET w2 == [w1 EXCEPT !.net.sent[s] = Append(@, b)]
           IN  IF ok THEN w2 ELSE [w2 EXCEPT !.rejected = @ + 1]
      ELSE IF w1.net.state[s] = "connecting"
      THEN [w1 EXCEPT !.net.waiting[s] = Append(@, b)]
      ELSE IF w1.net.state[s] = "rejected"
      THEN [w1 EXCEPT !.rejected = @ + 1]
      ELSE w1

\* ------------------------------------------------------------- playback
FreeChunks == {c \in Chunks : dev.src[c] = "none"}
NewChunk(d) == CHOOSE c \in Chunks :
                 d.src[c] = "none" /\ \A x \in Chunks : x < c => d.src[x] # "none"

\* playAudio() up to its await: the decode of the chunk is in flight afterwards.
playAudio(w, dur) ==
  IF w.svc.outputAudioContext = Null THEN w
  ELSE LET c == NewChunk(w.dev)
           t == w.dev.outTime[w.svc.outputAudioContext]
       IN  [w EXCEPT !.svc.nextStartTime = Max(@, t),
                     !.dev.src[c] = "decoding",
                     !.dev.srcDur[c] = dur,
                     !.sched.enq[c] = t,
                     !.sched.first[c] = w.sched.afterStop,
                     !.sched.afterStop = FALSE]

\* playAudio() after its await: the source is created on the context the field
\* holds now, started at nextStartTime and added to the pending set.
playDecoded(w, c) ==
  LET at == w.svc.nextStartTime
  IN  [w EXCEPT !.dev.src[c] = "started",
                !.dev.srcStart[c] = at,
                !.dev.srcCtx[c] = w.svc.outputAudioContext,
                !.svc.nextStartTime = at + w.dev.srcDur[c],
                !.svc.sources = @ \cup {c},
                !.sched.enq[c] = 0,
                !.sched.first[c] = FALSE]

\* ---------------------------------------------------- inbound messages
\* serverContent with none of its signals set: the handler does nothing
NoMsg == [audio |-> 0, inT |-> Absent, outT |-> Absent, turn |-> FALSE, intr |-> FALSE]

\* Any combination of the signals of a message, with one-letter fragments.
Messages == [audio : {0} \cup Durations,
             inT   : {Absent, <<"a">>},
             outT  : {Absent, <<"b">>},
             turn  : BOOLEAN,
             intr  : BOOLEAN] \ {NoMsg}

\* The messages that carry text only, with every fragment.
TextMessages == [audio : {0},
                 inT   : Fragments \cup {Absent},
                 outT  : Fragments \cup {Absent},
                 turn  : BOOLEAN,
                 intr  : {FALSE}] \ {NoMsg}

\* appendInput with the fragment put in front of the buffer
appendInputInFront(w, text) ==
  LET t == text \o w.svc.currentInput
  IN  onTranscriptionCb([w EXCEPT !.svc.currentInput = t], t, "input", FALSE)

appendInput(w, text) ==
  LET t == w.svc.currentInput \o text
  IN  onTranscriptionCb([w EXCEPT !.svc.currentInput = t], t, "input", FALSE)

appendOutput(w, text) ==
  LET t == w.svc.currentOutput \o text
  IN  onTranscriptionCb([w EXCEPT !.svc.currentOutput = t], t, "output", FALSE)

completeTurn(w) ==
  LET w1 == onTranscriptionCb(w, w.svc.currentInput, "input", TRUE)
      w2 == onTranscriptionCb(w1, w1.svc.currentOutput, "output", TRUE)
  IN  [w2 EXCEPT !.svc.currentInput = << >>, !.svc.currentOutput = << >>]

onmessage(w, m) ==
  LET w1 == IF m.audio # 0 THEN playAudio(w, m.audio) ELSE w
      w2 == IF m.inT # Absent THEN appendInput(w1, m.inT) ELSE w1
      w3 == IF m.outT # Absent THEN appendOutput(w2, m.outT) ELSE w2
      w4 == IF m.turn THEN completeTurn(w3) ELSE w3
  IN  IF m.intr THEN stopAllAudio(w4) ELSE w4

\* The fragments of each direction since the last turn-complete, as a list.
received(r, m) ==
  LET inB  == IF r.closed THEN << >> ELSE r.input
      outB == IF r.closed THEN << >> ELSE r.output
  IN  [input  |-> IF m.inT # Absent THEN Append(inB, m.inT) ELSE inB,
       output |-> IF m.outT # Absent THEN Append(outB, m.outT) ELSE outB,
       got    |-> {d \in {"input", "output"} :
                     IF d = "input" THEN m.inT # Absent ELSE m.outT # Absent},
       closed |-> m.turn]

\* ------------------------------------------------------------ the state
Op(name, k) == [op |-> name, k |-> k]

InFlight == {"resumeIn", "resumeOut", "getUserMedia"}

\* The attempts a disconnect() interrupts: suspended at an await of connect(),
\* or waiting for the open event of their session.
mark(n, k) ==
  IF cancelledAt[k] # "no" THEN cancelledAt[k]
  ELSE IF pc[k] \in InFlight THEN pc[k]
  ELSE IF n.state[k] = "connecting" THEN "sessionOpen"
  ELSE "no"

Commit(w) ==
  /\ svc' = w.svc
  /\ dev' = w.dev
  /\ net' = w.net
  /\ status' = w.status
  /\ prevStatus' = w.prev
  /\ calls' = w.calls
  /\ lastEvents' = w.events
  /\ rejected' = w.rejected
  /\ lastBlob' = w.blob
  /\ sched' = w.sched

Init ==
  /\ status = "IDLE"
  /\ prevStatus = "IDLE"
  /\ apiKey \in BOOLEAN
  /\ svc = [sessionPromise |-> Null, inputAudioContext |-> Null,
            outputAudioContext |-> Null, nextStartTime |-> 0, sources |-> {},
            mediaStream |-> Null, scriptProcessor |-> Null,
            currentInput |-> << >>, currentOutput |-> << >>]
  /\ dev = [inCtx |-> [k \in Attempts |-> "none"],
            outCtx |-> [k \in Attempts |-> "none"],
            outTime |-> [k \in Attempts |-> 0],
            stream |-> [k \in Attempts |-> "none"],
            proc |-> [k \in Attempts |-> "none"],
            procCtx |-> [k \in Attempts |-> Null],
            procStream |-> [k \in Attempts |-> Null],
            src |-> [c \in Chunks |-> "none"],
            srcDur |-> [c \in Chunks |-> 0],
            srcStart |-> [c \in Chunks |-> 0],
            srcCtx |-> [c \in Chunks |-> Null],
            blocks |-> 0]
  /\ net = [state |-> [k \in Attempts |-> "none"],
            opened |-> [k \in Attempts |-> FALSE],
            closeReq |-> [k \in Attempts |-> FALSE],
            closePending |-> [k \in Attempts |-> FALSE],
            waiting |-> [k \in Attempts |-> << >>],
            sent |-> [k \in Attempts |-> << >>]]
  /\ pc = [k \in Attempts |-> "idle"]
  /\ calls = [onError |-> [k \in Attempts |-> 0],
              listening |-> [k \in Attempts |-> FALSE]]
  /\ cancelledAt = [k \in Attempts |-> "no"]
  /\ recv = [input |-> << >>, output |-> << >>, got |-> {}, closed |-> FALSE]
  /\ lastOp = Op("init", Null)
  /\ lastEvents = << >>
  /\ rejected = 0
  /\ lastBlob = NoBlob
  /\ sched = [enq |-> [c \in Chunks |-> 0],
              cut |-> [c \in Chunks |-> FALSE],
              first |-> [c \in Chunks |-> FALSE],
              afterStop |-> FALSE]

\* ------------------------------------------------------------- connect
NextAttempt == CHOOSE k \in Attempts :
                 pc[k] = "idle" /\ \A x \in Attempts : x < k => pc[x] # "idle"

\* connect(): the catch block
connectCatch(w, k) == onErrorCb(w, k)

\* connect() from the credential check to the first await. `fail` names the
\* audio context whose construction throws, if one does.
connectStart(w, k, fail) ==
  IF fail = "input" THEN connectCatch(w, k)
  ELSE LET w1 == [w EXCEPT !.dev.inCtx[k] = "open", !.svc.inputAudioContext = k]
       IN  IF fail = "output" THEN connectCatch(w1, k)
           ELSE [w1 EXCEPT !.dev.outCtx[k] = "open", !.svc.outputAudioContext = k]

\* the credential check without its return: connect() goes on after onError
connectNoKeyGoesOn(w, k) == connectStart(onErrorCb(w, k), k, "none")

\* connect(): the credential check; without a key onError is called and
\* connect() returns before anything is created
connectNoKey(w, k) == onErrorCb(w, k)

\* connect() after getUserMedia: the stream is kept and the session is opened.
connectSession(w, k) ==
  [w EXCEPT !.dev.stream[k] = "live",
            !.svc.mediaStream = k,
            !.net.state[k] = "connecting",
            !.svc.sessionPromise = k]

\* App.toggleListen, status IDLE: setStatus(CONNECTING), then connect() runs
\* to its first await (or to its return).
Connect(Fails) ==
  /\ status = "IDLE"
  /\ \E k \in Attempts : pc[k] = "idle"
  /\ LET k  == NextAttempt
         w0 == setStatus(World, "CONNECTING")
     IN  /\ IF ~apiKey
            THEN /\ Commit(connectNoKey(w0, k))
                 /\ pc' = [pc EXCEPT ![k] = "noKey"]
            ELSE \E fail \in Fails :
                   /\ Commit(connectStart(w0, k, fail))
                   /\ pc' = [pc EXCEPT ![k] = IF fail = "none" THEN "resumeIn" ELSE "failed"]
         /\ lastOp' = Op("connect", k)
  /\ UNCHANGED <<apiKey, cancelledAt, recv>>

\* App.toggleListen, any other status: disconnect(), setStatus(IDLE). The
\* button is disabled while the status is CONNECTING.
ToggleDisconnect ==
  /\ status \in {"LISTENING", "ERROR"}
  /\ Commit(setStatus(disconnect(World), "IDLE"))
  /\ cancelledAt' = [k \in Attempts |-> mark(net, k)]
  /\ lastOp' = Op("disconnect", Null)
  /\ UNCHANGED <<apiKey, pc, recv>>

\* await this.inputAudioContext.resume() settles
ResumeInput(k, Oks) ==
  /\ pc[k] = "resumeIn"
  /\ \E ok \in Oks :
       /\ Commit(IF ok THEN World ELSE connectCatch(World, k))
       /\ pc' = [pc EXCEPT ![k] = IF ok THEN "resumeOut" ELSE "failed"]
  /\ lastOp' = Op("resumeIn", k)
  /\ UNCHANGED <<apiKey, cancelledAt, recv>>

\* await this.outputAudioContext.resume() settles
ResumeOutput(k, Oks) ==
  /\ pc[k] = "resumeOut"
  /\ \E ok \in Oks :
       /\ Commit(IF ok THEN World ELSE connectCatch(World, k))
       /\ pc' = [pc EXCEPT ![k] = IF ok THEN "getUserMedia" ELSE "failed"]
  /\ lastOp' = Op("resumeOut", k)
  /\ UNCHANGED <<apiKey, cancelledAt, recv>>

\* await navigator.mediaDevices.getUserMedia() settles
GetUserMedia(k, Oks) ==
  /\ pc[k] = "getUserMedia"
  /\ \E ok \in Oks :
       /\ Commit(IF ok THEN connectSession(World, k) ELSE connectCatch(World, k))
       /\ pc' = [pc EXCEPT ![k] = IF ok THEN "returned" ELSE "failed"]
  /\ lastOp' = Op("getUserMedia", k)
  /\ UNCHANGED <<apiKey, cancelledAt, recv>>

\* ------------------------------------------------------ session callbacks
\* onopen, after which the session promise is fulfilled: the sends that were
\* waiting for it run in the order they were attached, and a close that was
\* waiting for it is requested.
onopen(w, k) ==
  LET w1 == onStatusChangeCb(w, k, "LISTENING")
      w2 == startStreaming(w1, k)
      w3 == [w2 EXCEPT !.net.state[k] = "open", !.net.opened[k] = TRUE,
                       !.net.sent[k] = @ \o w2.net.waiting[k],
                       !.net.waiting[k] = << >>]
  IN  IF w3.net.closePending[k]
      THEN [w3 EXCEPT !.net.closePending[k] = FALSE, !.net.closeReq[k] = TRUE]
      ELSE w3

onerror(w, k) ==
  LET w1 == [w EXCEPT !.net.state[k] = "errored"]
  IN  disconnect(onErrorCb(w1, k))

onclose(w, k) ==
  onStatusChangeCb([w EXCEPT !.net.state[k] = "closed"], k, "IDLE")

OnOpen(k) ==
  /\ net.state[k] = "connecting"
  /\ Commit(onopen(World, k))
  /\ lastOp' = Op("onopen", k)
  /\ UNCHANGED <<apiKey, pc, cancelledAt, recv>>

\* A message is delivered while the session is open and no close was requested.
OnMessage(k, Msgs) ==
  /\ net.state[k] = "open"
  /\ ~net.closeReq[k]
  /\ \E m \in Msgs :
       /\ m.audio # 0 => FreeChunks # {}
       /\ m.inT # Absent => /\ Len(svc.currentInput) + Len(m.inT) <= MaxLen
                            /\ Len(received(recv, m).input) <= MaxFrags
       /\ m.outT # Absent => /\ Len(svc.currentOutput) + Len(m.outT) <= MaxLen
                             /\ Len(received(recv, m).output) <= MaxFrags
       /\ Commit(onmessage(World, m))
       /\ recv' = received(recv, m)
       /\ lastOp' = [op |-> "onmessage", k |-> k, interrupted |-> m.intr]
  /\ UNCHANGED <<apiKey, pc, cancelledAt>>

\* The connection fails: while connecting, while open, or while closing.
OnError(k) ==
  /\ net.state[k] \in {"connecting", "open"}
  /\ Commit(onerror(World, k))
  /\ cancelledAt' = [j \in Attempts |-> mark([net EXCEPT !.state[k] = "errored"], j)]
  /\ lastOp' = Op("onerror", k)
  /\ UNCHANGED <<apiKey, pc, recv>>

\* The connection closes: after a close request, after an error, or because
\* the remote side closed it.
OnClose(k) ==
  /\ net.state[k] \in {"open", "errored"}
  /\ Commit(onclose(World, k))
  /\ lastOp' = Op("onclose", k)
  /\ UNCHANGED <<apiKey, pc, cancelledAt, recv>>

\* The promise returned by ai.live.connect rejects: the session is never
\* established and none of its callbacks runs. connect() did not await the
\* promise, so its catch block does not see the rejection; the calls that were
\* waiting for the session (sends, a close) never run, and the rejection is
\* left without a handler: on each promise derived from it by then(), or on
\* the session promise itself when there is none.
OnReject(k) ==
  /\ net.state[k] = "connecting"
  /\ LET derived == Len(net.waiting[k]) + (IF net.closePending[k] THEN 1 ELSE 0)
     IN  Commit([World EXCEPT !.net.state[k] = "rejected",
                             !.net.waiting[k] = << >>,
                             !.net.closePending[k] = FALSE,
                             !.rejected = Max(1, derived)])
  /\ lastOp' = Op("onreject", k)
  /\ UNCHANGED <<apiKey, pc, cancelledAt, recv>>

\* --------------------------------------------------------- capture events
\* The processor p delivers a block: it is connected and its context runs. A
\* send can throw only on a session that is closing or closed.
Capture(p, Datas, Sends) ==
  /\ dev.proc[p] = "connected"
  /\ dev.inCtx[dev.procCtx[p]] = "open"
  /\ dev.blocks < MaxBlocks
  /\ \E data \in Datas, ok \in Sends :
       /\ ~ok => /\ svc.sessionPromise # Null
                 /\ net.opened[svc.sessionPromise]
                 /\ \/ net.state[svc.sessionPromise] # "open"
                    \/ net.closeReq[svc.sessionPromise]
       /\ Commit(onaudioprocess(World, data, ok))
       /\ lastOp' = [op |-> "capture", k |-> p, failed |-> ~ok, data |-> data]
  /\ UNCHANGED <<apiKey, pc, cancelledAt, recv>>

\* ------------------------------------------------------ playback events
\* decodeAudioData settles with a buffer
DecodeDone(c) ==
  /\ dev.src[c] = "decoding"
  /\ Commit(playDecoded(World, c))
  /\ lastOp' = Op("decoded", c)
  /\ UNCHANGED <<apiKey, pc, cancelledAt, recv>>

\* decodeAudioData rejects: playAudio() ends there, and nothing awaits it
DecodeFail(c) ==
  /\ dev.src[c] = "decoding"
  /\ Commit([World EXCEPT !.dev.src[c] = "dropped", !.rejected = 1,
                           !.sched.enq[c] = 0, !.sched.first[c] = FALSE])
  /\ lastOp' = Op("decodeFailed", c)
  /\ UNCHANGED <<apiKey, pc, cancelledAt, recv>>

\* a source plays to its end: onended removes it from the pending set
Ended(c) ==
  /\ dev.src[c] = "started"
  /\ dev.srcCtx[c] # Null
  /\ dev.outTime[dev.srcCtx[c]] >= dev.srcStart[c] + dev.srcDur[c]
  /\ Commit([World EXCEPT !.dev.src[c] = "ended", !.svc.sources = @ \ {c}])
  /\ lastOp' = Op("ended", c)
  /\ UNCHANGED <<apiKey, pc, cancelledAt, recv>>

\* the clocks of the open output contexts advance
Tick ==
  /\ \E k \in Attempts : dev.outCtx[k] = "open"
  /\ \A k \in Attempts : dev.outCtx[k] = "open" => dev.outTime[k] < PlayTime
  /\ Commit([World EXCEPT !.dev.outTime =
               [k \in Attempts |-> IF dev.outCtx[k] = "open" THEN @[k] + 1 ELSE @[k]]])
  /\ lastOp' = Op("tick", Null)
  /\ UNCHANGED <<apiKey, pc, cancelledAt, recv>>

\* ------------------------------------------------------- specifications
Outcomes == BOOLEAN                     \* an await settles or rejects
Creation == {"none", "input", "output"} \* which constructor throws

ToggleConnect   == Connect(Creation)
AwaitResumeIn   == \E k \in Attempts : ResumeInput(k, Outcomes)
AwaitResumeOut  == \E k \in Attempts : ResumeOutput(k, Outcomes)
AwaitUserMedia  == \E k \in Attempts : GetUserMedia(k, Outcomes)
SessionOpen     == \E k \in Attempts : OnOpen(k)
SessionMessage  == /\ \E k \in Attempts : OnMessage(k, Messages)
                   /\ \A c \in Chunks : c > MaxChunks => dev'.src[c] = "none"
SessionError    == \E k \in Attempts : OnError(k)
SessionClose    == \E k \in Attempts : OnClose(k)
SessionReject   == \E k \in Attempts : OnReject(k)
ChunkDecoded    == \E c \in Chunks : DecodeDone(c)
ChunkFailed     == \E c \in Chunks : DecodeFail(c)
ChunkEnded      == \E c \in Chunks : Ended(c)
ClockTick       == Tick /\ \A k \in Attempts : dev'.outTime[k] <= MaxTime

\* The whole program but for the capture blocks, which change nothing the
\* other handlers read, and for the rejection of the session promise, which
\* SpecConnect covers: every outcome of every await and every session event.
Next ==
  \/ ToggleConnect
  \/ ToggleDisconnect
  \/ AwaitResumeIn
  \/ AwaitResumeOut
  \/ AwaitUserMedia
  \/ SessionOpen
  \/ SessionMessage
  \/ SessionError
  \/ SessionClose
  \/ ChunkDecoded
  \/ ChunkFailed
  \/ ChunkEnded
  \/ ClockTick

Spec == Init /\ [][Next]_vars

\* The connection lifecycle alone: no message arrives and nothing is played.
NextSetup ==
  \/ ToggleConnect
  \/ ToggleDisconnect
  \/ AwaitResumeIn
  \/ AwaitResumeOut
  \/ AwaitUserMedia
  \/ SessionOpen
  \/ SessionError
  \/ SessionClose

SpecSetup == Init /\ [][NextSetup]_vars

\* Establishment: the setup with every outcome of the session promise too,
\* which is fulfilled after onopen, left pending by an error of the
\* connection, or rejected with no callback.
NextConnect ==
  \/ ToggleConnect
  \/ ToggleDisconnect
  \/ AwaitResumeIn
  \/ AwaitResumeOut
  \/ AwaitUserMedia
  \/ SessionOpen
  \/ SessionError
  \/ SessionClose
  \/ SessionReject

SpecConnect == Init /\ [][NextConnect]_vars

\* Transcription: the user connects once and every device opens; the messages
\* of the session carry every combination of fragments and turn-completes.
Granted == {TRUE}

TextConnect    == (\A k \in Attempts : pc[k] = "idle") /\ Connect({"none"})
TextResumeIn   == \E k \in Attempts : ResumeInput(k, Granted)
TextResumeOut  == \E k \in Attempts : ResumeOutput(k, Granted)
TextUserMedia  == \E k \in Attempts : GetUserMedia(k, Granted)
TextMessage    == \E k \in Attempts : OnMessage(k, TextMessages)

NextText ==
  \/ TextConnect
  \/ ToggleDisconnect
  \/ TextResumeIn
  \/ TextResumeOut
  \/ TextUserMedia
  \/ SessionOpen
  \/ TextMessage
  \/ SessionError
  \/ SessionClose

SpecText == Init /\ [][NextText]_vars

\* Playback: the user connects once and every device opens; the messages of
\* the session carry audio chunks and interruptions, the decodes settle in any
\* order, and the clock of the output context advances.
PlayMessages == [audio : {0} \cup Durations,
                 inT   : {Absent},
                 outT  : {Absent},
                 turn  : {FALSE},
                 intr  : BOOLEAN] \ {NoMsg}

PlayMessage == \E k \in Attempts : OnMessage(k, PlayMessages)

NextPlay ==
  \/ TextConnect
  \/ ToggleDisconnect
  \/ TextResumeIn
  \/ TextResumeOut
  \/ TextUserMedia
  \/ SessionOpen
  \/ PlayMessage
  \/ ChunkDecoded
  \/ ChunkFailed
  \/ ChunkEnded
  \/ Tick

SpecPlay == Init /\ [][NextPlay]_vars

\* Capture: every device opens, the user toggles at will, sessions open, fail
\* and close, and the connected processors deliver silent blocks whose sends
\* return or throw.
SilentBlocks == {<<0>>}

CaptureConnect == Connect({"none"})
CaptureBlock   == \E p \in Attempts : Capture(p, SilentBlocks, Outcomes)

NextCapture ==
  \/ CaptureConnect
  \/ ToggleDisconnect
  \/ TextResumeIn
  \/ TextResumeOut
  \/ TextUserMedia
  \/ SessionOpen
  \/ SessionError
  \/ SessionClose
  \/ CaptureBlock

SpecCapture == Init /\ [][NextCapture]_vars

\* Encoding: one session, whose processor delivers one block, of any samples.
EncodeBlock == dev.blocks = 0 /\ \E p \in Attempts : Capture(p, Blocks, Granted)

NextPcm ==
  \/ TextConnect
  \/ TextResumeIn
  \/ TextResumeOut
  \/ TextUserMedia
  \/ SessionOpen
  \/ EncodeBlock

SpecPcm == Init /\ [][NextPcm]_vars

\* Turns: the user connects once and every device opens; the messages of the
\* session carry any combination of audio, fragments, turn-complete and
\* interruption, and the decodes settle in any order.
TurnMessage == \E k \in Attempts : OnMessage(k, Messages)

NextTurn ==
  \/ TextConnect
  \/ TextResumeIn
  \/ TextResumeOut
  \/ TextUserMedia
  \/ SessionOpen
  \/ TurnMessage
  \/ ChunkDecoded

SpecTurn == Init /\ [][NextTurn]_vars

\* ================================================================ claims
Partials(d) == {i \in DOMAIN lastEvents :
                  ~lastEvents[i].isFinal /\ lastEvents[i].type = d}
Finals(d)   == {i \in DOMAIN lastEvents :
                  lastEvents[i].isFinal /\ lastEvents[i].type = d}
Directions  == {"input", "output"}

Started(k)  == pc[k] # "idle"
\* a session that is connecting or open and whose close nobody has asked for
LiveSession(k) == /\ net.state[k] \in {"connecting", "open"}
                  /\ ~net.closeReq[k]
                  /\ ~net.closePending[k]
HoldsDevices(k) == \/ dev.inCtx[k] = "open"
                   \/ dev.outCtx[k] = "open"
                   \/ dev.stream[k] = "live"

AllowedTransitions ==
  { <<"IDLE", "CONNECTING">>, <<"CONNECTING", "LISTENING">>, <<"LISTENING", "IDLE">>,
    <<"CONNECTING", "ERROR">>, <<"LISTENING", "ERROR">>, <<"ERROR", "IDLE">> }

\* C1: every status change is one of IDLE -> CONNECTING -> LISTENING -> IDLE and
\* CONNECTING|LISTENING -> ERROR -> IDLE, and an open or close event of an
\* earlier session leaves the status alone while a later attempt is CONNECTING
\* or LISTENING.
C1_StatusTransitions ==
  /\ status # prevStatus => <<prevStatus, status>> \in AllowedTransitions
  /\ ( /\ lastOp.op \in {"onopen", "onclose"}
       /\ \E k \in Attempts : k > lastOp.k /\ Started(k)
       /\ prevStatus \in {"CONNECTING", "LISTENING"} )
     => status = prevStatus

\* C2: at most one session is live at any time, and the devices of at most one
\* connect attempt are held at any time.
C2_OneSession ==
  /\ Cardinality({k \in Attempts : LiveSession(k)}) <= 1
  /\ Cardinality({k \in Attempts : HoldsDevices(k)}) <= 1

\* C3: an attempt that disconnect() interrupted changes nothing afterwards: it
\* keeps no microphone stream, opens no session (or leaves none open), never
\* reports LISTENING and starts no capture.
C3_CancelledAttemptIsInert ==
  \A k \in Attempts :
    cancelledAt[k] # "no" =>
      /\ ~calls.listening[k]
      /\ dev.proc[k] = "none"
      /\ net.state[k] = "open" => net.closeReq[k]
      /\ cancelledAt[k] \in InFlight =>
           /\ net.state[k] = "none"
           /\ dev.stream[k] # "live"
           /\ svc.mediaStream # k

\* C4: a message with turn-complete yields a final event for a direction exactly
\* when the text gathered for that direction is not empty, carrying that text;
\* no other message yields a final event, and no final event has empty text.
C4_FinalOnlyForNonEmpty ==
  lastOp.op = "onmessage" =>
    \A d \in Directions :
      /\ Cardinality(Finals(d)) = IF recv.closed /\ Flatten(recv[d]) # << >> THEN 1 ELSE 0
      /\ \A i \in Finals(d) : /\ lastEvents[i].text = Flatten(recv[d])
                              /\ lastEvents[i].text # << >>

\* C5: a message yields one partial event for each direction it carries a
\* fragment of and none for the other, and the event's text is the concatenation,
\* in arrival order, of the fragments of that direction since the last
\* turn-complete.
C5_PartialIsConcatenation ==
  lastOp.op = "onmessage" =>
    \A d \in Directions :
      /\ Cardinality(Partials(d)) = IF d \in recv.got THEN 1 ELSE 0
      /\ \A i \in Partials(d) : lastEvents[i].text = Flatten(recv[d])

\* C5 happens: the input partial "ab" was built from two fragments while the
\* output direction had gathered text of its own in between.
C5_Witness ==
  /\ lastOp.op = "onmessage"
  /\ Len(recv.input) = 2
  /\ recv.output # << >> /\ Flatten(recv.output) # << >>
  /\ \E i \in Partials("input") : lastEvents[i].text = <<"a", "b">>

\* C6: both buffers are empty right after a turn-complete and whenever no
\* session is live.
C6_BuffersEmptyWithoutSession ==
  /\ (lastOp.op = "onmessage" /\ recv.closed) =>
       (svc.currentInput = << >> /\ svc.currentOutput = << >>)
  /\ (\A k \in Attempts : ~LiveSession(k)) =>
       (svc.currentInput = << >> /\ svc.currentOutput = << >>)

TornDown ==
  /\ svc.sources = {} /\ svc.nextStartTime = 0
  /\ \A k \in Attempts :
       /\ dev.stream[k] # "live"
       /\ dev.proc[k] # "connected"
       /\ ~LiveSession(k)
       /\ dev.inCtx[k] # "open"
       /\ dev.outCtx[k] # "open"
  /\ svc.sessionPromise = Null
  /\ svc.mediaStream = Null
  /\ svc.scriptProcessor = Null
  /\ svc.inputAudioContext = Null
  /\ svc.outputAudioContext = Null

\* C7: right after disconnect() nothing is pending or held and every
\* session-scoped reference is null.
C7_DisconnectTearsDown ==
  lastOp.op \in {"disconnect", "onerror"} => TornDown

Quiet(w) == [w EXCEPT !.rejected = 0]

\* C8: from every state, a second disconnect() fails nowhere and leaves the
\* state the first one left.
C8_DisconnectIdempotent ==
  LET once  == disconnect(World)
      twice == disconnect(Quiet(once))
  IN  /\ twice.rejected = 0
      /\ Quiet(twice) = Quiet(once)

NothingOpened(k) ==
  /\ dev.inCtx[k] = "none" /\ dev.outCtx[k] = "none"
  /\ dev.stream[k] = "none"
  /\ net.state[k] = "none"
  /\ ~calls.listening[k]

\* C9 as stated: once connect() has returned from the failed credential check,
\* onError was called once, nothing was opened, and the status is IDLE.
C9_NoKeyReturnsToIdle ==
  \A k \in Attempts :
    (pc[k] = "noKey" /\ lastOp = Op("connect", k)) =>
      /\ calls.onError[k] = 1
      /\ NothingOpened(k)
      /\ status = "IDLE"

\* C9 amended: after a failed credential check onError was called exactly once
\* for the attempt and the attempt opened nothing and never reported LISTENING;
\* the status is ERROR when connect() returns, and it is IDLE again only after
\* the user's next toggle.
C9_NoKeyReportsError ==
  \A k \in Attempts :
    pc[k] = "noKey" =>
      /\ calls.onError[k] = 1
      /\ NothingOpened(k)
      /\ status \in {"ERROR", "IDLE"}
      /\ lastOp = Op("connect", k) => (status = "ERROR" /\ prevStatus = "CONNECTING")
      /\ status = "IDLE" => (lastOp.op = "disconnect" /\ prevStatus = "ERROR")

\* C9 happens: a second attempt failed its credential check after the user had
\* reset the first failure.
C9_Witness ==
  /\ \A k \in 1..2 : pc[k] = "noKey"
  /\ lastOp = Op("connect", 2)
  /\ status = "ERROR"

\* C10: once connect() has failed on an audio context or on the microphone,
\* onError was called, no session was started, no context of the attempt is
\* open or referenced, and the status is IDLE.
C10_DeviceFailureReleases ==
  \A k \in Attempts :
    (pc[k] = "failed" /\ lastOp.k = k
       /\ lastOp.op \in {"connect", "resumeIn", "resumeOut", "getUserMedia"}) =>
      /\ calls.onError[k] >= 1
      /\ net.state[k] = "none"
      /\ dev.inCtx[k] # "open" /\ dev.outCtx[k] # "open"
      /\ svc.inputAudioContext # k /\ svc.outputAudioContext # k
      /\ status = "IDLE"

\* the session of attempt k has had an error event
Errored(k) == net.state[k] # "none" /\ calls.onError[k] > 0

\* C11: a session-error event reports onError once and tears everything down:
\* right after it the status is ERROR, no source is pending or playing, and the
\* microphone stream, the capture processor, the session and both contexts of
\* that session are released; a session that has had an error never captures
\* again, and the status leaves ERROR only for IDLE.
C11_SessionErrorTearsDown ==
  /\ lastOp.op = "onerror" =>
       /\ calls.onError[lastOp.k] = 1
       /\ status = "ERROR"
       /\ svc.sources = {}
       /\ \A c \in Chunks : dev.src[c] # "started"
       /\ dev.stream[lastOp.k] # "live"
       /\ dev.proc[lastOp.k] # "connected"
       /\ ~LiveSession(lastOp.k)
       /\ dev.inCtx[lastOp.k] # "open"
       /\ dev.outCtx[lastOp.k] # "open"
  /\ \A k \in Attempts :
       Errored(k) => (dev.stream[k] # "live" /\ dev.proc[k] # "connected")
  /\ (prevStatus = "ERROR" /\ status # "ERROR") => status = "IDLE"

\* Chunks are numbered in the order their messages arrive.
Scheduled(c) == dev.src[c] \in {"started", "ended"}

RECURSIVE SumDur(_, _)
SumDur(i, j) == IF j < i THEN 0 ELSE dev.srcDur[i] + SumDur(i + 1, j)

\* C12: when chunks i..j were enqueued one after the other, no stopAllAudio()
\* ran since, and all of them have been given to source.start, the start time
\* of chunk j is the start time of chunk i plus the durations of chunks i..j-1.
C12_GaplessLaw ==
  \A i, j \in Chunks :
    (i < j /\ ~sched.cut[i] /\ \A x \in i..j : Scheduled(x)) =>
      dev.srcStart[j] = dev.srcStart[i] + SumDur(i, j - 1)

\* source.start() is called for chunk c in this step
Starts(c) == dev.src[c] = "decoding" /\ dev'.src[c] = "started"

\* C13: the first chunk enqueued after a stopAllAudio(), when no other
\* stopAllAudio() ran before its decode settled, is given to source.start with
\* the device time read when it was enqueued, also when another chunk was being
\* decoded while stopAllAudio() ran.
C13_ResetLaw ==
  [][\A c \in Chunks :
       (Starts(c) /\ sched.first[c] /\ ~sched.cut[c]) =>
         dev'.srcStart[c] = sched.enq[c]]_vars

\* the task that ran last handled a message with the interrupted signal
Interrupted == lastOp.op = "onmessage" /\ lastOp.interrupted

\* C14: right after a message with the interrupted signal is handled the
\* pending set is empty and no source is left playing or scheduled: every
\* source that was pending has been stopped, however many there were.
C14_InterruptStopsAll ==
  Interrupted =>
    /\ svc.sources = {}
    /\ \A c \in Chunks : dev.src[c] # "started"

\* C14 happens: two chunks were pending when the interruption arrived, one of
\* them already past its end on the device clock, and both are stopped.
C14_Witness ==
  /\ Interrupted
  /\ \A c \in 1..2 : dev.src[c] = "stopped"
  /\ \E c \in 1..2 : dev.outTime[dev.srcCtx[c]] >= dev.srcStart[c] + dev.srcDur[c]
  /\ \E c \in 1..2 : dev.outTime[dev.srcCtx[c]] < dev.srcStart[c] + dev.srcDur[c]

\* C19: of two chunks that arrived in the order i, j with no stopAllAudio()
\* since, the later one is never given to source.start with a time before the
\* scheduled end of the earlier one, whichever decode settles first.
C19_PlaybackIsFifo ==
  \A i, j \in Chunks :
    (i < j /\ ~sched.cut[i] /\ Scheduled(i) /\ Scheduled(j)) =>
      dev.srcStart[j] >= dev.srcStart[i] + dev.srcDur[i]

\* the pending set the way the platform sees it: started and not yet ended
Playing(c) == dev.src[c] = "started"

\* C20: every source in the pending set has been started and has not ended, a
\* source that ended or was never started is not in the set, and when
\* source.start is called the time given to it is not before the device time
\* of that moment.
C20_PendingSet ==
  /\ \A c \in svc.sources : Playing(c)
  /\ \A c \in Chunks : lastOp = Op("decoded", c) =>
       dev.srcStart[c] >= dev.outTime[dev.srcCtx[c]]

\* C15: a captured block whose send throws raises nothing: the handler leaves
\* no rejected promise behind, calls no callback, changes no status and leaves
\* its processor connected; and a block captured while the field holds a
\* fulfilled session promise is handed to that session, whatever happened to
\* the blocks before it.
C15_TransmitFailureSwallowed ==
  [][lastOp'.op = "capture" =>
       /\ lastOp'.failed =>
            /\ rejected' = 0
            /\ status' = status /\ prevStatus' = prevStatus
            /\ calls' = calls
            /\ dev'.proc = dev.proc
       /\ (svc.sessionPromise # Null /\ net.opened[svc.sessionPromise]) =>
            /\ Len(net'.sent[svc.sessionPromise]) = Len(net.sent[svc.sessionPromise]) + 1
            /\ net'.sent[svc.sessionPromise][Len(net'.sent[svc.sessionPromise])] = dev'.blocks]_vars

\* C16: on every session, sendRealtimeInput is called for the captured blocks
\* in the order they were captured (blocks are numbered as they are captured),
\* the blocks whose send waited for the session promise included.
C16_SendsInCaptureOrder ==
  \A k \in Attempts :
    /\ \A i, j \in DOMAIN net.sent[k] : i < j => net.sent[k][i] < net.sent[k][j]
    /\ \A i, j \in DOMAIN net.waiting[k] : i < j => net.waiting[k][i] < net.waiting[k][j]

\* C16 happens: a session has just opened and the two blocks that were captured
\* while its promise was pending have been sent on it.
C16_Witness ==
  /\ lastOp.op = "onopen"
  /\ Len(net.sent[lastOp.k]) >= 2

\* the value of the i-th little-endian 16-bit element of a byte sequence
Signed16(u) == IF u >= 32768 THEN u - 65536 ELSE u
ElementAt(bytes, i) == Signed16(bytes[2 * i - 1] + 256 * bytes[2 * i])

\* a sample of the range [-1.0, 1.0]
InRange(s) == s # NaN /\ -SampleDen <= s /\ s <= SampleDen

\* C17: the blob made from a block of n samples is tagged audio/pcm;rate=16000
\* and carries exactly 2n bytes; the i-th pair of bytes, low byte first, is a
\* value of [-32768, 32767] whatever the sample is, and for a sample of
\* [-1.0, 1.0] it is that sample scaled by 32767.
C17_PcmLengthAndRange ==
  lastOp.op = "capture" =>
    LET bytes == decode(lastBlob.data)
        n     == Len(lastOp.data)
    IN  /\ lastBlob.mimeType = "audio/pcm;rate=16000"
        /\ Len(bytes) = 2 * n
        /\ \A x \in DOMAIN bytes : bytes[x] \in 0..255
        /\ \A i \in 1..n :
             /\ ElementAt(bytes, i) \in (-32768)..32767
             /\ InRange(lastOp.data[i]) =>
                  ElementAt(bytes, i) = TruncDiv(lastOp.data[i] * 32767, SampleDen)

\* C17 happens: a block of two samples, 0.5 and one above 1.0, was encoded to
\* four bytes.
C17_Witness ==
  /\ lastOp.op = "capture"
  /\ Len(lastOp.data) = 2
  /\ 2 * lastOp.data[1] = SampleDen
  /\ lastOp.data[2] # NaN /\ lastOp.data[2] > SampleDen
  /\ Len(decode(lastBlob.data)) = 4

\* C18: a sample above 1.0 is encoded as 1.0 is (32767), a sample below -1.0 as
\* -1.0 is (-32767), and a larger sample never encodes to a smaller value.
C18_PcmSaturates ==
  lastOp.op = "capture" =>
    LET bytes == decode(lastBlob.data)
        data  == lastOp.data
    IN  /\ \A i \in DOMAIN data :
             /\ (data[i] # NaN /\ data[i] > SampleDen) => ElementAt(bytes, i) = 32767
             /\ (data[i] # NaN /\ data[i] < -SampleDen) => ElementAt(bytes, i) = -32767
        /\ \A i, j \in DOMAIN data :
             (data[i] # NaN /\ data[j] # NaN /\ data[i] <= data[j]) =>
               ElementAt(bytes, i) <= ElementAt(bytes, j)

\* the chunk c is enqueued in this step: playAudio() began to decode it
Enqueues(c) == dev.src[c] = "none" /\ dev'.src[c] = "decoding"

\* the place of a transcription event in the handling of one message: the
\* input fragment, the output fragment, then the finals of the turn
Rank(e) == IF e.isFinal THEN 3 ELSE IF e.type = "input" THEN 1 ELSE 2

\* C21: the signals of one message take effect in the order audio, input
\* fragment, output fragment, turn-complete, interruption, so that a fragment
\* that comes with turn-complete is reported as a partial and then in the
\* final, and a chunk that comes with an interruption is enqueued before the
\* stop; and no effect of a message is applied after an effect of a later
\* message: a chunk is not started once a chunk of a later message has been
\* enqueued.
C21_MessageEffectsInOrder ==
  [][/\ lastOp'.op = "onmessage" =>
          /\ \A i, j \in DOMAIN lastEvents' :
               i < j => Rank(lastEvents'[i]) <= Rank(lastEvents'[j])
          /\ \A i, j \in DOMAIN lastEvents' :
               (/\ ~lastEvents'[i].isFinal
                /\ lastEvents'[j].isFinal
                /\ lastEvents'[i].type = lastEvents'[j].type) =>
                 /\ lastEvents'[j].text = lastEvents'[i].text
                 /\ lastEvents'[j].text =
                      Flatten(IF lastEvents'[j].type = "input"
                              THEN recv'.input ELSE recv'.output)
          /\ \A c \in Chunks :
               (Enqueues(c) /\ lastOp'.interrupted) => sched'.cut[c]
     /\ \A c \in Chunks :
          Starts(c) => \A x \in Chunks : x > c => dev.src[x] = "none"]_vars

\* the decode of chunk c, or the start of its source, fails in this step
Fails(c) == dev.src[c] = "decoding" /\ dev'.src[c] = "dropped"

\* C22: a chunk that fails to decode or to start is dropped without effect:
\* the task leaves no rejected promise behind, onError is not called and the
\* status stays, the pending set and nextStartTime stay, no other chunk is
\* touched, and when the chunk was the only one enqueued since the last reset
\* nextStartTime is 0 as it was before the chunk was enqueued.
C22_FailedChunkIsDropped ==
  [][\A c \in Chunks :
       Fails(c) =>
         /\ rejected' = 0
         /\ calls' = calls
         /\ status' = status
         /\ svc' = svc
         /\ \A x \in Chunks \ {c} : dev'.src[x] = dev.src[x]
         /\ (sched.first[c] /\ ~sched.cut[c]
               /\ \A x \in Chunks \ {c} : dev.src[x] \notin {"decoding", "started"}
               /\ svc.sources = {}) =>
              svc'.nextStartTime = 0]_vars

\* something of attempt k is still to come: an await of connect() has not
\* settled, or its session can still deliver an event
Pending(k) ==
  \/ pc[k] \in InFlight
  \/ net.state[k] \in {"connecting", "open", "errored"}

\* C23: a connect attempt leaves CONNECTING under every outcome of its setup
\* steps, rejection of the session promise included: the status is CONNECTING
\* only while a step of an attempt is still to settle, so that no run comes
\* to rest in CONNECTING.
C23_ConnectLeavesConnecting ==
  status = "CONNECTING" => \E k \in Attempts : Pending(k)

\* disconnect() has not run on any session so far: no close was requested or
\* is waiting, and no session reported an error
NoDisconnect ==
  \A k \in Attempts :
    /\ ~net.closeReq[k]
    /\ ~net.closePending[k]
    /\ net.state[k] # "errored"
    /\ calls.onError[k] = 0

\* C24: a chunk received before an interruption, in an earlier message or in
\* the message that carries it, is not started after the interruption was
\* handled: a chunk whose decode was in flight when stopAllAudio() ran for the
\* interruption is neither given to source.start nor added to the pending set
\* afterwards.
C24_InterruptedChunkNeverStarts ==
  [][\A c \in Chunks :
       (sched.cut[c] /\ NoDisconnect) =>
         /\ ~Starts(c)
         /\ c \notin svc.sources => c \notin svc'.sources]_vars

\* C25: whenever the status is IDLE no session resources are held: no
\* microphone track is live, no audio context is open, no capture processor is
\* connected and no block is encoded or sent, and the pending set is empty
\* with no source playing; also after a close that the remote side began.
C25_IdleHoldsNothing ==
  status = "IDLE" =>
    /\ \A k \in Attempts : ~HoldsDevices(k)
    /\ \A p \in Attempts : dev.proc[p] # "connected"
    /\ lastOp.op # "capture"
    /\ svc.sources = {}
    /\ \A c \in Chunks : ~Playing(c)

\* disconnect() has run on the session k: its close was requested or waits
\* for the session, or the session reported the error that ran disconnect()
Disconnected(k) ==
  \/ net.closeReq[k]
  \/ net.closePending[k]
  \/ net.state[k] # "none" /\ calls.onError[k] > 0

\* C26: after disconnect() returned no late event of the session it tore
\* down changes the state or reaches the application: the open event and the
\* messages of such a session are not handled (no LISTENING, no transcription,
\* nothing appended to the buffers), and a decode that completes when every
\* session that was opened has been torn down starts no source and adds
\* nothing to the pending set.
C26_NoLateEvents ==
  [][/\ lastOp'.op \in {"onopen", "onmessage"} => ~Disconnected(lastOp'.k)
     /\ \A c \in Chunks :
          (Starts(c) \/ (c \notin svc.sources /\ c \in svc'.sources)) =>
            \E k \in Attempts : net.opened[k] /\ ~Disconnected(k)]_vars

====
